---- MODULE Spec2Model ----
(***************************************************************************)
(* Library catalog of src/library.cpp: publications (Book, EBook,          *)
(* Magazine), readers that borrow and return books, the library            *)
(* collection, the admin role and the list-printing template.              *)
(*                                                                         *)
(* The objects are driven either by main (pc walks main's statements) or   *)
(* by an arbitrary client of the classes (pc = "client"), which may call   *)
(* any public operation on any object with any argument.                   *)
(***************************************************************************)
EXTENDS Integers, Sequences, FiniteSets, TLC

\* Most entries, over the borrowed lists of all readers, a client run builds.
MaxBorrowed == 2
\* Longest library collection a client run builds.
MaxPubs == 2

(***************************************************************************)
(* Objects.  A shared_ptr is the identity of the object it points to, or   *)
(* NULL.                                                                   *)
(***************************************************************************)
NULL == "nullptr"
Books == {"b1", "b2"}
Pubs == {"b1", "b2", "m1"}
PubRefs == Pubs \cup {NULL}
BookRefs == Books \cup {NULL}
Readers == {"r", "r2"}

\* Dynamic type of each publication object (the class whose displayInfo runs).
kind == [p \in Pubs |-> CASE p = "b1" -> "Book" [] p = "b2" -> "EBook" [] p = "m1" -> "Magazine"]
title == [p \in Pubs |-> CASE p = "b1" -> "C++ for Beginners"
                           [] p = "b2" -> "The C++ Programming Language"
                           [] p = "m1" -> "TechWorld"]
year == [p \in Pubs |-> CASE p = "b1" -> 2020 [] p = "b2" -> 2013 [] p = "m1" -> 2025]
author == [p \in Pubs |-> CASE p = "b1" -> "Herbert Schildt"
                            [] p = "b2" -> "Bjarne Stroustrup"
                            [] p = "m1" -> "Herbert Schildt"]
genre == [b \in Books |-> CASE b = "b1" -> "Education" [] b = "b2" -> "Programming"]
issue == [p \in {"m1"} |-> 12]
\* fileSize in tenths of a megabyte (5.6 MB).
fileSize == [p \in {"b2"} |-> 56]
name == [r \in Readers |-> CASE r = "r" -> "Ivan Petrov" [] r = "r2" -> "Maria Koval"]
adminName == "Olena"
mainListTitle == "All Publications (via template)"
ListTitles == {mainListTitle, "Books"}

VARIABLES
    available,      \* Book::available of every Book / EBook object
    borrowed,       \* Reader::borrowed of every Reader
    publications,   \* Library::publications
    out,            \* the lines the last call wrote to cout, in order
    call,           \* the last call made: its name and arguments
    pc,             \* main's position, or "client"
    retOfHeld       \* history: ret() was called directly on a book some reader held
vars == <<available, borrowed, publications, out, call, pc, retOfHeld>>

(***************************************************************************)
(* Formatting: operator<< on int and on double (default precision, values  *)
(* with at most one decimal digit).                                        *)
(***************************************************************************)
Digit(d) ==
    CASE d = 0 -> "0" [] d = 1 -> "1" [] d = 2 -> "2" [] d = 3 -> "3" [] d = 4 -> "4"
      [] d = 5 -> "5" [] d = 6 -> "6" [] d = 7 -> "7" [] d = 8 -> "8" [] d = 9 -> "9"

RECURSIVE IntStr(_)
IntStr(n) == IF n < 10 THEN Digit(n) ELSE IntStr(n \div 10) \o Digit(n % 10)

DoubleStr(tenths) ==
    IF tenths % 10 = 0 THEN IntStr(tenths \div 10)
    ELSE IntStr(tenths \div 10) \o "." \o Digit(tenths % 10)

(***************************************************************************)
(* displayInfo, dispatched on the dynamic type.  av is the availability    *)
(* map the call reads.                                                     *)
(***************************************************************************)
\* Faulty variant: the availability suffixes swapped.
BookDisplayInfo_Swapped(b, av) ==
    "Book: " \o title[b] \o " (" \o IntStr(year[b]) \o "), " \o genre[b]
        \o " - " \o author[b] \o (IF av[b] THEN " [Taken]" ELSE " [Available]")

BookDisplayInfo(b, av) ==
    "Book: " \o title[b] \o " (" \o IntStr(year[b]) \o "), " \o genre[b]
        \o " - " \o author[b] \o (IF av[b] THEN " [Available]" ELSE " [Taken]")

MagazineDisplayInfo(m) ==
    "Magazine: " \o title[m] \o " #" \o IntStr(issue[m])
        \o " (" \o IntStr(year[m]) \o ") - " \o author[m]

EBookDisplayInfo(e) ==
    "E-Book: " \o title[e] \o " (" \o IntStr(year[e]) \o "), size: "
        \o DoubleStr(fileSize[e]) \o "MB - " \o author[e]

displayInfo(p, av) ==
    CASE kind[p] = "Book" -> BookDisplayInfo(p, av)
      [] kind[p] = "EBook" -> EBookDisplayInfo(p)
      [] kind[p] = "Magazine" -> MagazineDisplayInfo(p)

\* Faulty variant: the entries displayed last to first.
RECURSIVE DisplayEach_Reversed(_, _)
DisplayEach_Reversed(list, av) ==
    IF list = <<>> THEN <<>>
    ELSE DisplayEach_Reversed(Tail(list), av)
             \o (IF Head(list) # NULL THEN <<displayInfo(Head(list), av)>> ELSE <<>>)

\* for (auto& x : list) if (x) x->displayInfo();
RECURSIVE DisplayEach(_, _)
DisplayEach(list, av) ==
    IF list = <<>> THEN <<>>
    ELSE (IF Head(list) # NULL THEN <<displayInfo(Head(list), av)>> ELSE <<>>)
             \o DisplayEach(Tail(list), av)

\* The elements of a sequence.
Range(s) == {s[i] : i \in 1..Len(s)}

\* Number of entries in the borrowed lists bor of the readers in S.
RECURSIVE TotalBorrowed(_, _)
TotalBorrowed(bor, S) ==
    IF S = {} THEN 0
    ELSE LET r == CHOOSE x \in S : TRUE IN Len(bor[r]) + TotalBorrowed(bor, S \ {r})

(***************************************************************************)
(* Book                                                                    *)
(***************************************************************************)
\* Faulty variant: borrow() flips the flag.
borrow_Toggle(b) ==
    /\ available' = [available EXCEPT ![b] = ~@]
    /\ out' = <<>>
    /\ call' = <<"borrow", b>>
    /\ UNCHANGED <<borrowed, publications>>

\* void borrow() { available = false; }
borrow(b) ==
    /\ available' = [available EXCEPT ![b] = FALSE]
    /\ out' = <<>>
    /\ call' = <<"borrow", b>>
    /\ UNCHANGED <<borrowed, publications>>

\* void ret() { available = true; }
ret(b) ==
    /\ available' = [available EXCEPT ![b] = TRUE]
    /\ out' = <<>>
    /\ call' = <<"ret", b>>
    /\ UNCHANGED <<borrowed, publications>>

(***************************************************************************)
(* Reader                                                                  *)
(***************************************************************************)
\* Faulty variant: no availability check.
borrowBook_NoAvailabilityCheck(r, b) ==
    /\ call' = <<"borrowBook", r, b>>
    /\ UNCHANGED publications
    /\ IF b = NULL THEN
           /\ out' = <<"Invalid book pointer">>
           /\ UNCHANGED <<available, borrowed>>
       ELSE
           /\ borrowed' = [borrowed EXCEPT ![r] = Append(@, b)]
           /\ available' = [available EXCEPT ![b] = FALSE]
           /\ out' = <<name[r] \o " borrowed \"" \o title[b] \o "\"">>

\* Faulty variant: the null reference is stored before it is reported.
borrowBook_NullStored(r, b) ==
    /\ call' = <<"borrowBook", r, b>>
    /\ UNCHANGED publications
    /\ IF b = NULL THEN
           /\ borrowed' = [borrowed EXCEPT ![r] = Append(@, b)]
           /\ out' = <<"Invalid book pointer">>
           /\ UNCHANGED available
       ELSE IF available[b] THEN
           /\ borrowed' = [borrowed EXCEPT ![r] = Append(@, b)]
           /\ available' = [available EXCEPT ![b] = FALSE]
           /\ out' = <<name[r] \o " borrowed \"" \o title[b] \o "\"">>
       ELSE
           /\ out' = <<"Book not available!">>
           /\ UNCHANGED <<available, borrowed>>

\* Faulty variant: the book is appended but b->borrow() is not called.
borrowBook_NotMarked(r, b) ==
    /\ call' = <<"borrowBook", r, b>>
    /\ UNCHANGED publications
    /\ IF b = NULL THEN
           /\ out' = <<"Invalid book pointer">>
           /\ UNCHANGED <<available, borrowed>>
       ELSE IF available[b] THEN
           /\ borrowed' = [borrowed EXCEPT ![r] = Append(@, b)]
           /\ UNCHANGED available
           /\ out' = <<name[r] \o " borrowed \"" \o title[b] \o "\"">>
       ELSE
           /\ out' = <<"Book not available!">>
           /\ UNCHANGED <<available, borrowed>>

borrowBook(r, b) ==
    /\ call' = <<"borrowBook", r, b>>
    /\ UNCHANGED publications
    /\ IF b = NULL THEN
           /\ out' = <<"Invalid book pointer">>
           /\ UNCHANGED <<available, borrowed>>
       ELSE IF available[b] THEN
           /\ borrowed' = [borrowed EXCEPT ![r] = Append(@, b)]
           /\ available' = [available EXCEPT ![b] = FALSE]
           /\ out' = <<name[r] \o " borrowed \"" \o title[b] \o "\"">>
       ELSE
           /\ out' = <<"Book not available!">>
           /\ UNCHANGED <<available, borrowed>>

\* Faulty variant: only the first held book is returned.
RetEach_FirstOnly(list, av) ==
    IF list = <<>> THEN av
    ELSE IF Head(list) # NULL THEN [av EXCEPT ![Head(list)] = TRUE] ELSE av

\* for (auto& b : borrowed) if (b) b->ret();
RECURSIVE RetEach(_, _)
RetEach(list, av) ==
    IF list = <<>> THEN av
    ELSE RetEach(Tail(list),
                 IF Head(list) # NULL THEN [av EXCEPT ![Head(list)] = TRUE] ELSE av)

\* Faulty variant: the list is cleared without ret() on its books.
returnAll_ClearOnly(r) ==
    /\ borrowed' = [borrowed EXCEPT ![r] = <<>>]
    /\ out' = <<>>
    /\ call' = <<"returnAll", r>>
    /\ UNCHANGED <<available, publications>>

returnAll(r) ==
    /\ available' = RetEach(borrowed[r], available)
    /\ borrowed' = [borrowed EXCEPT ![r] = <<>>]
    /\ out' = <<>>
    /\ call' = <<"returnAll", r>>
    /\ UNCHANGED publications

listBooks(r) ==
    /\ out' = <<name[r] \o " borrowed books:">> \o DisplayEach(borrowed[r], available)
    /\ call' = <<"listBooks", r>>
    /\ UNCHANGED <<available, borrowed, publications>>

(***************************************************************************)
(* Library                                                                 *)
(***************************************************************************)
addPublication(p) ==
    /\ publications' = Append(publications, p)
    /\ out' = <<>>
    /\ call' = <<"addPublication", p>>
    /\ UNCHANGED <<available, borrowed>>

showAll ==
    /\ out' = <<"", "=== Library Collection ===">> \o DisplayEach(publications, available)
    /\ call' = <<"showAll">>
    /\ UNCHANGED <<available, borrowed, publications>>

(***************************************************************************)
(* printList                                                               *)
(***************************************************************************)
printList(list, t) ==
    /\ out' = <<"", "=== " \o t \o " ===">> \o DisplayEach(list, available)
    /\ call' = <<"printList", list, t>>
    /\ UNCHANGED <<available, borrowed, publications>>

(***************************************************************************)
(* Admin                                                                   *)
(***************************************************************************)
showRole ==
    /\ out' = <<adminName \o " is Admin">>
    /\ call' = <<"showRole">>
    /\ UNCHANGED <<available, borrowed, publications>>

\* Faulty variant: removeBook removes the last publication.
removeBook_Removes ==
    /\ out' = <<adminName \o " removed a book (simulated)">>
    /\ call' = <<"removeBook">>
    /\ publications' = SubSeq(publications, 1, Len(publications) - 1)
    /\ UNCHANGED <<available, borrowed>>

\* void removeBook(Library& lib): lib is not touched.
removeBook ==
    /\ out' = <<adminName \o " removed a book (simulated)">>
    /\ call' = <<"removeBook">>
    /\ UNCHANGED <<available, borrowed, publications>>

(***************************************************************************)
(* main                                                                    *)
(***************************************************************************)
\* vector<shared_ptr<Publication>> all = {b1, b2, m1};
all == <<"b1", "b2", "m1">>

MainAddB1 == pc = "add_b1" /\ addPublication("b1") /\ pc' = "add_b2" /\ UNCHANGED retOfHeld
MainAddB2 == pc = "add_b2" /\ addPublication("b2") /\ pc' = "add_m1" /\ UNCHANGED retOfHeld
MainAddM1 == pc = "add_m1" /\ addPublication("m1") /\ pc' = "borrowBook" /\ UNCHANGED retOfHeld
MainBorrowBook == pc = "borrowBook" /\ borrowBook("r", "b1") /\ pc' = "listBooks" /\ UNCHANGED retOfHeld
MainListBooks == pc = "listBooks" /\ listBooks("r") /\ pc' = "showAll" /\ UNCHANGED retOfHeld
MainShowAll == pc = "showAll" /\ showAll /\ pc' = "showRole" /\ UNCHANGED retOfHeld
MainShowRole == pc = "showRole" /\ showRole /\ pc' = "printList" /\ UNCHANGED retOfHeld
MainPrintList == pc = "printList" /\ printList(all, mainListTitle) /\ pc' = "return" /\ UNCHANGED retOfHeld

(***************************************************************************)
(* An arbitrary client of the classes.                                     *)
(***************************************************************************)
\* The vectors a client hands to printList: empty, null entries, duplicates,
\* mixed dynamic types.
Vectors ==
    {<<>>, <<NULL>>, <<"b1", "b1">>, <<"m1", NULL, "b2">>,
     <<"b2", "b1", NULL, "b1">>, all}

\* The readers whose borrowed list holds b.
Holders(b) == {r \in Readers : b \in Range(borrowed[r])}

ClientBorrow ==
    /\ pc = "client" /\ UNCHANGED <<pc, retOfHeld>>
    /\ \E b \in Books : borrow(b)
ClientRet ==
    /\ pc = "client" /\ UNCHANGED pc
    /\ \E b \in Books :
          /\ ret(b)
          /\ retOfHeld' = (retOfHeld \/ Holders(b) # {})
ClientBorrowBook ==
    /\ pc = "client" /\ UNCHANGED <<pc, retOfHeld>>
    /\ \E r \in Readers, b \in BookRefs :
          /\ (b # NULL /\ available[b]) => TotalBorrowed(borrowed, Readers) < MaxBorrowed
          /\ borrowBook(r, b)
ClientReturnAll ==
    /\ pc = "client" /\ UNCHANGED <<pc, retOfHeld>>
    /\ \E r \in Readers : returnAll(r)
ClientListBooks ==
    /\ pc = "client" /\ UNCHANGED <<pc, retOfHeld>>
    /\ \E r \in Readers : listBooks(r)
ClientAddPublication ==
    /\ pc = "client" /\ UNCHANGED <<pc, retOfHeld>>
    /\ Len(publications) < MaxPubs
    /\ \E p \in PubRefs : addPublication(p)
ClientShowAll == pc = "client" /\ UNCHANGED <<pc, retOfHeld>> /\ showAll
ClientPrintList ==
    /\ pc = "client" /\ UNCHANGED <<pc, retOfHeld>>
    /\ \E list \in Vectors, t \in ListTitles : printList(list, t)
ClientShowRole == pc = "client" /\ UNCHANGED <<pc, retOfHeld>> /\ showRole
ClientRemoveBook == pc = "client" /\ UNCHANGED <<pc, retOfHeld>> /\ removeBook

\* Every Book starts available, every Reader and the Library start empty.
Init ==
    /\ available = [b \in Books |-> TRUE]
    /\ borrowed = [r \in Readers |-> <<>>]
    /\ publications = <<>>
    /\ out = <<>>
    /\ call = <<"construct">>
    /\ pc \in {"add_b1", "client"}
    /\ retOfHeld = FALSE

Main ==
    \/ MainAddB1 \/ MainAddB2 \/ MainAddM1 \/ MainBorrowBook
    \/ MainListBooks \/ MainShowAll \/ MainShowRole \/ MainPrintList

\* Calls that leave Book::available to the Reader operations.
ClientNoDirect ==
    \/ ClientBorrowBook \/ ClientReturnAll
    \/ ClientListBooks \/ ClientAddPublication \/ ClientShowAll
    \/ ClientPrintList \/ ClientShowRole \/ ClientRemoveBook

Client == ClientBorrow \/ ClientRet \/ ClientNoDirect

Next == Main \/ Client

Spec == Init /\ [][Next]_vars

\* Books change only through Reader::borrowBook and Reader::returnAll.
NextReaders == Main \/ ClientNoDirect

SpecReaders == Init /\ [][NextReaders]_vars

TypeOK ==
    /\ available \in [Books -> BOOLEAN]
    /\ borrowed \in [Readers -> Seq(BookRefs)]
    /\ publications \in Seq(PubRefs)
    /\ pc \in {"client", "add_b1", "add_b2", "add_m1", "borrowBook", "listBooks",
               "showAll", "showRole", "printList", "return"}

(***************************************************************************)
(* Properties                                                              *)
(***************************************************************************)
\* Number of entries of list that refer to b.
Occurrences(list, b) == Cardinality({i \in 1..Len(list) : list[i] = b})

\* The step is the call borrowBook(r, b).
IsBorrowBook(r, b) == call'[1] = "borrowBook" /\ call'[2] = r /\ call'[3] = b

\* C1: borrowBook with a non-null book whose availability is false leaves
\* every borrowed list as it is and leaves the book unavailable, whoever
\* made it unavailable.
C1_UnavailableNotBorrowed ==
    [][\A r \in Readers, b \in Books :
          (IsBorrowBook(r, b) /\ ~available[b]) =>
              /\ borrowed' = borrowed
              /\ available' = available
              /\ ~available'[b]
              /\ out' = <<"Book not available!">>]_vars

\* C1 witness: r2 was refused a book that r holds.
C1_Witness ==
    /\ call[1] = "borrowBook" /\ call[2] = "r2"
    /\ out = <<"Book not available!">>
    /\ call[3] \in Range(borrowed["r"])
    /\ call[3] \notin Range(borrowed["r2"])

\* C2: borrowBook with a null reference leaves every borrowed list and every
\* book's availability as they are, reports the invalid reference, and the
\* call completes.
C2_NullNotBorrowed ==
    [][\A r \in Readers :
          IsBorrowBook(r, NULL) =>
              /\ borrowed' = borrowed
              /\ available' = available
              /\ out' = <<"Invalid book pointer">>]_vars

\* C2 witness: a null borrow was made by a reader who holds a book.
C2_Witness ==
    /\ call[1] = "borrowBook" /\ call[3] = NULL
    /\ out = <<"Invalid book pointer">>
    /\ borrowed[call[2]] # <<>>

\* C3: returnAll leaves the reader's list empty and every book that was in
\* it available, for a list of any size; a second returnAll in a row changes
\* nothing.
C3_ReturnAll ==
    [][\A r \in Readers :
          /\ (call'[1] = "returnAll" /\ call'[2] = r) =>
                /\ borrowed'[r] = <<>>
                /\ \A b \in Books : b \in Range(borrowed[r]) => available'[b]
          /\ (call[1] = "returnAll" /\ call[2] = r
                /\ call'[1] = "returnAll" /\ call'[2] = r) =>
                (borrowed' = borrowed /\ available' = available)]_vars

\* C3 witness: r returned its books while r2 still holds one.
C3_Witness ==
    /\ call[1] = "returnAll" /\ call[2] = "r"
    /\ borrowed["r"] = <<>>
    /\ borrowed["r2"] # <<>>
    /\ \E b \in Books : available[b] /\ b \notin Range(borrowed["r2"])

\* C4: borrowBook with an available Book or EBook appends exactly that book
\* to the reader's list, makes it unavailable, and changes no other book's
\* availability and no other reader's list.
C4_BorrowAppends ==
    [][\A r \in Readers, b \in Books :
          (IsBorrowBook(r, b) /\ available[b]) =>
              /\ borrowed'[r] = Append(borrowed[r], b)
              /\ ~available'[b]
              /\ \A c \in Books \ {b} : available'[c] = available[c]
              /\ \A q \in Readers \ {r} : borrowed'[q] = borrowed[q]]_vars

\* C4 witness: an EBook was appended after a Book.
C4_Witness ==
    /\ call[1] = "borrowBook" /\ call[3] = "b2"
    /\ borrowed[call[2]] = <<"b1", "b2">>
    /\ ~available["b2"]

\* C5 as claimed: in every reachable state a book appears at most once in a
\* reader's borrowed list.
C5_AtMostOnce ==
    \A r \in Readers, b \in Books : Occurrences(borrowed[r], b) <= 1

\* C5 amended: as long as ret() has not been called directly on a book that
\* a reader holds, a book appears at most once in a reader's borrowed list.
C5_AtMostOnceUnlessRetOfHeld ==
    ~retOfHeld => \A r \in Readers, b \in Books : Occurrences(borrowed[r], b) <= 1

\* C5 witness: a second borrowBook of a held book was refused, direct
\* borrow() and ret() calls aside.
C5_Witness ==
    /\ ~retOfHeld
    /\ call[1] = "borrowBook" /\ call[3] # NULL
    /\ out = <<"Book not available!">>
    /\ call[3] \in Range(borrowed[call[2]])

\* C6 as claimed: in main, b1 is available after construction; after
\* borrowBook the output is the confirmation and b1 is unavailable; and
\* listBooks then prints exactly one line, b1's line ending in [Taken].
C6_MainScenarioOneLine ==
    /\ pc = "add_b1" => available["b1"]
    /\ pc = "listBooks" =>
          (out = <<"Ivan Petrov borrowed \"C++ for Beginners\"">> /\ ~available["b1"])
    /\ pc = "showAll" =>
          out = <<"Book: C++ for Beginners (2020), Education - Herbert Schildt [Taken]">>

\* C6 amended: listBooks prints its header line and then exactly one book
\* line, b1's line ending in [Taken].
C6_MainScenario ==
    /\ pc = "add_b1" => available["b1"]
    /\ pc = "listBooks" =>
          (out = <<"Ivan Petrov borrowed \"C++ for Beginners\"">> /\ ~available["b1"])
    /\ pc = "showAll" =>
          out = <<"Ivan Petrov borrowed books:",
                  "Book: C++ for Beginners (2020), Education - Herbert Schildt [Taken]">>

\* C6 witness: main has just run listBooks.
C6_Witness == pc = "showAll" /\ call[1] = "listBooks" /\ Len(out) = 2

\* The non-null entries of list, in order.
NonNull(list) == SelectSeq(list, LAMBDA x : x # NULL)

\* out is the header and then one display line per non-null entry of list,
\* in the order of list.
Displays(o, header, list, av) ==
    LET shown == NonNull(list) IN
    /\ Len(o) = 2 + Len(shown)
    /\ o[1] = "" /\ o[2] = header
    /\ \A i \in 1..Len(shown) : o[2 + i] = displayInfo(shown[i], av)

\* C7: showAll and printList emit the header first and then one display
\* line per non-null entry, in sequence order, nulls skipped and duplicates
\* displayed as often as they occur.
C7_DisplayInOrder ==
    /\ call[1] = "showAll" =>
          Displays(out, "=== Library Collection ===", publications, available)
    /\ call[1] = "printList" =>
          Displays(out, "=== " \o call[3] \o " ===", call[2], available)

\* C7 witness: a vector with a null entry and a duplicate was printed.
C7_Witness ==
    /\ call[1] = "printList"
    /\ call[2] = <<"b2", "b1", NULL, "b1">>
    /\ Len(out) = 5 /\ out[4] = out[5]
    /\ ~available["b1"]

\* C8: a Book is available right after construction; borrow() makes it
\* unavailable and a following ret() makes it available again; borrow() on
\* an unavailable book and ret() on an available one change nothing.
C8_BorrowRet ==
    [][\A b \in Books :
          /\ call[1] = "construct" => available[b]
          /\ (call'[1] = "borrow" /\ call'[2] = b) =>
                /\ ~available'[b]
                /\ ~available[b] => available' = available
          /\ (call'[1] = "ret" /\ call'[2] = b) =>
                /\ available'[b]
                /\ available[b] => available' = available
          /\ (call'[1] \in {"borrow", "ret"} /\ call'[2] = b) =>
                \A c \in Books \ {b} : available'[c] = available[c]]_vars

\* C8 witness: ret() restored a book while the other stays unavailable.
C8_Witness ==
    /\ call[1] = "ret" /\ available[call[2]]
    /\ \E c \in Books : ~available[c]

\* C9: the collection changes only by addPublication, which appends its
\* argument unconditionally; every other call leaves it as it is.
C9_LibraryOnlyGrows ==
    [][/\ call'[1] = "addPublication" => publications' = Append(publications, call'[2])
       /\ publications' # publications => call'[1] = "addPublication"
       /\ Len(publications') >= Len(publications)
       /\ \A i \in 1..Len(publications) : publications'[i] = publications[i]]_vars

\* C9 witness: the library holds a null entry twice and removeBook ran.
C9_Witness ==
    /\ publications = <<NULL, NULL>>
    /\ call[1] = "removeBook"

\* Number of entries, over all readers, that refer to b.
RECURSIVE TotalOccurrences(_, _)
TotalOccurrences(b, S) ==
    IF S = {} THEN 0
    ELSE LET r == CHOOSE x \in S : TRUE
         IN Occurrences(borrowed[r], b) + TotalOccurrences(b, S \ {r})

\* C10: without direct borrow()/ret() calls, a book is unavailable exactly
\* when it is in exactly one reader's list, once; it is never held by two
\* readers; the books a reader's returnAll gives back are held by nobody and
\* available; and borrowBook of a book nobody holds, by any reader, takes it.
C10_HeldIffUnavailable ==
    /\ [](\A b \in Books :
            /\ TotalOccurrences(b, Readers) <= 1
            /\ ~available[b] <=> TotalOccurrences(b, Readers) = 1
            /\ Cardinality(Holders(b)) <= 1)
    /\ [][\A r \in Readers, b \in Books :
            (call'[1] = "returnAll" /\ call'[2] = r /\ b \in Range(borrowed[r])) =>
                (available'[b] /\ \A q \in Readers : b \notin Range(borrowed'[q]))]_vars
    /\ [][\A q \in Readers, b \in Books :
            (IsBorrowBook(q, b) /\ Holders(b) = {}) =>
                borrowed'[q] = Append(borrowed[q], b)]_vars

\* C10 witness: r2 has just borrowed b1 while r holds b2.
C10_Witness ==
    /\ borrowed["r2"] = <<"b1">> /\ borrowed["r"] = <<"b2">>
    /\ call[1] = "borrowBook" /\ call[2] = "r2"
    /\ ~available["b1"] /\ ~available["b2"]

====
